---- MODULE Spec2Model ----
(***************************************************************************)
(* Model of toxicity_analysis_api.py: twelve pickled artifacts (six TF-IDF *)
(* vectorizers, six classifiers) are loaded into module globals at import  *)
(* time, and PredictToxicity.get scores one text against the six           *)
(* dimensions and answers 200, 400 or 500.                                 *)
(*                                                                         *)
(* Probabilities are held in thousandths (873 is 0.873) and rounded        *)
(* values in hundredths (87 is 0.87).  A text is a sequence of characters. *)
(***************************************************************************)
EXTENDS Integers, Sequences, FiniteSets, TLC

\* ------------------------------------------------------------------ bounds
\* longest query text, and most artifacts that fail to load or load broken,
\* when one request is served at a time
MaxLen == 2
MaxDefects == 2
\* the same two bounds when two requests are served concurrently
ConcMaxLen == 2
ConcMaxDefects == 1

\* ------------------------------------------------------- names and orders
Dims == {"tox", "sev", "obs", "ins", "thr", "ide"}

\* the order of the twelve load_pickle_file calls
LoadOrder ==
  << [kind |-> "vect", dim |-> "tox"], [kind |-> "vect", dim |-> "sev"],
     [kind |-> "vect", dim |-> "obs"], [kind |-> "vect", dim |-> "ins"],
     [kind |-> "vect", dim |-> "thr"], [kind |-> "vect", dim |-> "ide"],
     [kind |-> "model", dim |-> "tox"], [kind |-> "model", dim |-> "sev"],
     [kind |-> "model", dim |-> "obs"], [kind |-> "model", dim |-> "ins"],
     [kind |-> "model", dim |-> "thr"], [kind |-> "model", dim |-> "ide"] >>

Artifacts == {LoadOrder[i] : i \in 1..Len(LoadOrder)}

\* the order in which the try block scores the dimensions (threat before insult)
ExecOrder == <<"tox", "sev", "obs", "thr", "ins", "ide">>

\* the keys of toxicity_results, in the order the dict literal lists them
Labels ==
  << <<"Prob (Toxic)", "tox">>, <<"Prob (Severe Toxic)", "sev">>,
     <<"Prob (Obscene)", "obs">>, <<"Prob (Insult)", "ins">>,
     <<"Prob (Threat)", "thr">>, <<"Prob (Identity Hate)", "ide">> >>

\* request threads of the server
Reqs == {1, 2}

\* ------------------------------------------------------------------- text
Chars == {" ", "a"}

TextsUpTo(n) == UNION {[1..k -> Chars] : k \in 0..n}

\* the query string of a request: the text parameter may be absent
QueriesUpTo(n) ==
  {[present |-> FALSE, value |-> <<>>]}
    \cup {[present |-> TRUE, value |-> t] : t \in TextsUpTo(n)}

\* request.args.get('text', '')
ArgsGet(q) == IF q.present THEN q.value ELSE <<>>

RECURSIVE LStrip(_)
LStrip(s) == IF s # <<>> /\ Head(s) = " " THEN LStrip(Tail(s)) ELSE s

RECURSIVE RStrip(_)
RStrip(s) ==
  IF s # <<>> /\ s[Len(s)] = " " THEN RStrip(SubSeq(s, 1, Len(s) - 1)) ELSE s

\* str.strip()
StripNone(s) == s

Strip(s) == RStrip(LStrip(s))

\* ----------------------------------------------------- the opaque artifacts
\* What a pickle file can hold: nothing readable, a fitted object, or an
\* object that unpickles but raises when used.
FileStates == {"unreadable", "good", "broken"}

None == "none"

\* load_pickle_file: the unpickled object, or None when anything raises
load_pickle_file(f) == IF f = "unreadable" THEN None ELSE f

NoVect == [dim |-> "-", text |-> <<>>]

\* vectorizer d applied to [text]: a feature vector in d's own vocabulary
TransformOf(d, t) == [dim |-> d, text |-> t]

DimIdx(d) == CHOOSE i \in 1..6 : Labels[i][2] = d

CharCode(c) == IF c = " " THEN 2 ELSE 1

RECURSIVE TextCode(_)
TextCode(t) == IF t = <<>> THEN 0 ELSE CharCode(Head(t)) + TextCode(Tail(t))

\* Stub classifiers: positive-class probability in thousandths, a pure
\* function of the dimension and the text.  The first row is the worked
\* example; the values ending in 5 (125, 375, 625, 875) are exact binary
\* fractions, so they are true ties for round().
ProbaTable ==
  << <<873, 12, 501, 499, 4, 200>>,
     <<125, 375, 1000, 0, 996, 625>>,
     <<647, 998, 333, 875, 50, 1>> >>

\* classifier d on a vector of its own vectorizer: predict_proba(vect)[:, 1][0]
ProbaOf(d, v) == ProbaTable[((TextCode(v.text) + 2) % 3) + 1][DimIdx(d)]

\* a classifier accepts only vectors with its own number of features
Fits(d, v) == v.dim = d

\* round(x, 2) on a float: round half to even
round2(p) ==
  LET q == p \div 10
      r == p % 10
  IN  IF r < 5 THEN q
      ELSE IF r > 5 THEN q + 1
      ELSE IF q % 2 = 0 THEN q ELSE q + 1

\* ------------------------------------------------------------------ state
VARIABLES
  registry,   \* the twelve module globals: "unloaded", None, "good" or "broken"
  loadpc,     \* index in LoadOrder of the next artifact to load; 13 when serving
  pc,         \* per request thread: "idle", "scoring", "round", "done"
  query,      \* the query string the request arrived with
  text,       \* local text (after strip)
  at,         \* number of the scoring statement last started, 0..12
  vect,       \* local vect
  pred,       \* locals pred_tox .. pred_ide, -1 while unassigned
  response,   \* what the handler returned
  calls       \* the components that ran during the request, in order

vars == <<registry, loadpc, pc, query, text, at, vect, pred, response, calls>>

Serving == loadpc = Len(LoadOrder) + 1

NoQuery == [present |-> FALSE, value |-> <<>>]
NoPred == [d \in Dims |-> -1]
NoResponse == [status |-> 0, error |-> <<>>, original_text |-> <<>>, results |-> <<>>]

\* how many artifacts failed to load or loaded broken so far (for the bound)
Defects == Cardinality({a \in Artifacts : registry[a] \in {None, "broken"}})

Init ==
  /\ registry = [a \in Artifacts |-> "unloaded"]
  /\ loadpc = 1
  /\ pc = [r \in Reqs |-> "idle"]
  /\ query = [r \in Reqs |-> NoQuery]
  /\ text = [r \in Reqs |-> <<>>]
  /\ at = [r \in Reqs |-> 0]
  /\ vect = [r \in Reqs |-> NoVect]
  /\ pred = [r \in Reqs |-> NoPred]
  /\ response = [r \in Reqs |-> NoResponse]
  /\ calls = [r \in Reqs |-> <<>>]

\* ---------------------------------------------------------------- startup
\* one module-level assignment  x = load_pickle_file(...)
Load(maxDefects) ==
  /\ loadpc <= Len(LoadOrder)
  /\ \E f \in FileStates :
       /\ f # "good" => Defects < maxDefects
       /\ registry' = [registry EXCEPT ![LoadOrder[loadpc]] = load_pickle_file(f)]
  /\ loadpc' = loadpc + 1
  /\ UNCHANGED <<pc, query, text, at, vect, pred, response, calls>>


\* ---------------------------------------------------------------- responses
\* jsonify({"error": "Text is required"}), 400
EmptyInput ==
  [status |-> 400, error |-> <<"Text is required">>,
   original_text |-> <<>>, results |-> <<>>]

\* except Exception as e: jsonify({"error": f"Error during prediction: {e}"}), 500
ExceptPartial(r, e) ==
  [status |-> 500, error |-> <<"Error during prediction", e>>,
   original_text |-> text[r],
   results |-> [i \in 1..6 |-> <<Labels[i][1], pred[r][Labels[i][2]]>>]]

Except(r, e) ==
  [status |-> 500, error |-> <<"Error during prediction", e>>,
   original_text |-> <<>>, results |-> <<>>]

\* the alphabetical position of a key of toxicity_results
KeyRank(label) ==
  CASE label = "Prob (Identity Hate)" -> 1
    [] label = "Prob (Insult)" -> 2
    [] label = "Prob (Obscene)" -> 3
    [] label = "Prob (Severe Toxic)" -> 4
    [] label = "Prob (Threat)" -> 5
    [] label = "Prob (Toxic)" -> 6

\* json.dumps(..., sort_keys=True), the default of flask's jsonify: the
\* key/value pairs of an object in the alphabetical order of their keys
SortKeys(items) ==
  [i \in 1..Len(items) |->
     CHOOSE e \in {items[j] : j \in 1..Len(items)} :
       Cardinality({j \in 1..Len(items) : KeyRank(items[j][1]) < KeyRank(e[1])})
         = i - 1]

\* the six round() calls and the toxicity_results dict literal, in the order
\* the literal lists its keys
ToxicityResults(p) == [i \in 1..6 |-> <<Labels[i][1], round2(p[Labels[i][2]])>>]

\* jsonify(response) of a successful request: the body as serialised
Report(t, p) ==
  [status |-> 200, error |-> <<>>, original_text |-> t,
   results |-> SortKeys(ToxicityResults(p))]

\* str(e) of the AttributeError raised by calling a method on None
AttributeError(method) == IF method = "transform"
                            THEN "'NoneType' object has no attribute 'transform'"
                            ELSE "'NoneType' object has no attribute 'predict_proba'"

\* ------------------------------------------------------------- the handler
\* The handler has no global statement: it rebinds no module global.
HandlerFrameReload ==
  /\ registry' = [a \in Artifacts |-> "good"]
  /\ loadpc' = loadpc

HandlerFrame == UNCHANGED <<registry, loadpc>>

\* vect = <vectorizer>.transform(data) binds a local of the request's own frame
StoreVectGlobal(r, v) == [q \in Reqs |-> v]

StoreVect(r, v) == [vect EXCEPT ![r] = v]

\* the dimension and the component of scoring statement k (1..12)
StmtDim(k) == ExecOrder[(k + 1) \div 2]
StmtKind(k) == IF k % 2 = 1 THEN "vect" ELSE "model"

\* the exception leaves the try block: the remaining statements are skipped
Raise(r, e) ==
  /\ response' = [response EXCEPT ![r] = Except(r, e)]
  /\ pc' = [pc EXCEPT ![r] = "done"]
  /\ UNCHANGED <<query, text, at, pred>>

\* A request arrives; the handler strips the text parameter and either answers
\* 400 or enters the try block.
Start(r, maxLen) ==
  /\ Serving
  /\ pc[r] = "idle"
  /\ \E q \in QueriesUpTo(maxLen) :
       LET t == Strip(ArgsGet(q)) IN
       /\ query' = [query EXCEPT ![r] = q]
       /\ text' = [text EXCEPT ![r] = t]
       /\ IF t = <<>>
            THEN /\ response' = [response EXCEPT ![r] = EmptyInput]
                 /\ pc' = [pc EXCEPT ![r] = "done"]
                 /\ at' = at
            ELSE /\ response' = response
                 /\ pc' = [pc EXCEPT ![r] = "scoring"]
                 /\ at' = [at EXCEPT ![r] = 1]
  /\ HandlerFrame
  /\ UNCHANGED <<vect, pred, calls>>

\* vect = <d vectorizer>.transform(data)
Transform(r) ==
  /\ pc[r] = "scoring"
  /\ StmtKind(at[r]) = "vect"
  /\ LET d == StmtDim(at[r])
         obj == registry[[kind |-> "vect", dim |-> d]]
         call == [comp |-> "vect", dim |-> d, text |-> text[r]]
     IN  CASE obj = None ->
                /\ Raise(r, AttributeError("transform"))
                /\ UNCHANGED <<vect, calls>>
           [] obj = "broken" ->
                /\ Raise(r, "transform raised")
                /\ calls' = [calls EXCEPT ![r] = Append(@, call)]
                /\ vect' = vect
           [] OTHER ->
                /\ vect' = StoreVect(r, TransformOf(d, text[r]))
                /\ calls' = [calls EXCEPT ![r] = Append(@, call)]
                /\ at' = [at EXCEPT ![r] = @ + 1]
                /\ UNCHANGED <<pc, query, text, pred, response>>
  /\ HandlerFrame

\* pred_d = <d classifier>.predict_proba(vect)[:, 1]
Predict(r) ==
  /\ pc[r] = "scoring"
  /\ StmtKind(at[r]) = "model"
  /\ LET d == StmtDim(at[r])
         obj == registry[[kind |-> "model", dim |-> d]]
         call == [comp |-> "model", dim |-> d, text |-> vect[r].text]
     IN  CASE obj = None ->
                /\ Raise(r, AttributeError("predict_proba"))
                /\ calls' = calls
           [] obj = "broken" ->
                /\ Raise(r, "predict_proba raised")
                /\ calls' = [calls EXCEPT ![r] = Append(@, call)]
           [] obj = "good" /\ ~Fits(d, vect[r]) ->
                /\ Raise(r, "X has a different number of features")
                /\ calls' = [calls EXCEPT ![r] = Append(@, call)]
           [] OTHER ->
                /\ pred' = [pred EXCEPT ![r][d] = ProbaOf(d, vect[r])]
                /\ calls' = [calls EXCEPT ![r] = Append(@, call)]
                /\ IF at[r] = 2 * Len(ExecOrder)
                     THEN pc' = [pc EXCEPT ![r] = "round"] /\ at' = at
                     ELSE pc' = pc /\ at' = [at EXCEPT ![r] = @ + 1]
                /\ UNCHANGED <<query, text, response>>
  /\ vect' = vect
  /\ HandlerFrame

\* the six round() calls, the response dict and jsonify(response)
Respond(r) ==
  /\ pc[r] = "round"
  /\ response' = [response EXCEPT ![r] = Report(text[r], pred[r])]
  /\ pc' = [pc EXCEPT ![r] = "done"]
  /\ HandlerFrame
  /\ UNCHANGED <<query, text, at, vect, pred, calls>>

\* the response has been sent; the frame and its locals are gone
Finish(r) ==
  /\ pc[r] = "done"
  /\ pc' = [pc EXCEPT ![r] = "idle"]
  /\ query' = [query EXCEPT ![r] = NoQuery]
  /\ text' = [text EXCEPT ![r] = <<>>]
  /\ at' = [at EXCEPT ![r] = 0]
  /\ vect' = [vect EXCEPT ![r] = NoVect]
  /\ pred' = [pred EXCEPT ![r] = NoPred]
  /\ response' = [response EXCEPT ![r] = NoResponse]
  /\ calls' = [calls EXCEPT ![r] = <<>>]
  /\ HandlerFrame

\* ------------------------------------------------------------ specifications
\* one request at a time
Next ==
  \/ Load(MaxDefects)
  \/ Start(1, MaxLen)
  \/ Transform(1)
  \/ Predict(1)
  \/ Respond(1)
  \/ Finish(1)

Spec == Init /\ [][Next]_vars

\* two request threads, interleaved statement by statement
NextConc ==
  \/ Load(ConcMaxDefects)
  \/ \E r \in Reqs : Start(r, ConcMaxLen)
  \/ \E r \in Reqs : Transform(r)
  \/ \E r \in Reqs : Predict(r)
  \/ \E r \in Reqs : Respond(r)
  \/ \E r \in Reqs : Finish(r)

SpecConc == Init /\ [][NextConc]_vars


\* ------------------------------------------------------------------ claims
IsBlank(s) == \A i \in 1..Len(s) : s[i] = " "

\* the caller supplied a text that is not empty after trimming
NonBlank(r) == query[r].present /\ ~IsBlank(query[r].value)

Finished(r) == pc[r] = "done"

Defective == {a \in Artifacts : registry[a] \in {None, "broken"}}

\* C1: a request whose text is missing, empty or only whitespace is answered
\* 400 "Text is required" at once: no scoring statement starts and no
\* vectorizer or classifier runs during it.
C1_EmptyInputShortCircuit ==
  \A r \in Reqs :
    (pc[r] # "idle" /\ (~query[r].present \/ IsBlank(query[r].value))) =>
      /\ Finished(r)
      /\ response[r] = EmptyInput
      /\ response[r].status = 400
      /\ at[r] = 0
      /\ calls[r] = <<>>

C1_Witness ==
  \E r \in Reqs :
    /\ Finished(r)
    /\ query[r] = [present |-> TRUE, value |-> <<" ", " ">>]
    /\ response[r].status = 400

\* C2: for a non-empty text, if any artifact is missing or raises, the finished
\* request is a 500 that carries no probability at all, and a 200 report is
\* returned only when all twelve artifacts work and all six were predicted.
C2_AllOrNothing ==
  \A r \in Reqs :
    (Finished(r) /\ NonBlank(r)) =>
      /\ Defective # {} =>
           /\ response[r].status = 500
           /\ response[r].results = <<>>
           /\ response[r].original_text = <<>>
      /\ response[r].status = 200 =>
           /\ Defective = {}
           /\ \A d \in Dims : pred[r][d] >= 0

\* a failed request that had already predicted some dimension
C2_Witness ==
  \E r \in Reqs :
    /\ Finished(r)
    /\ response[r].status = 500
    /\ \E d \in Dims : pred[r][d] >= 0

\* v (hundredths) is p (thousandths) rounded to the nearest, ties to even
NearestEven(v, p) ==
  /\ v \in 0..100
  /\ 10 * v - p <= 5
  /\ p - 10 * v <= 5
  /\ (10 * v - p = 5 \/ p - 10 * v = 5) => v % 2 = 0

\* the six label/dimension pairs in display order
DisplayOrder ==
  << <<"Prob (Toxic)", "tox">>, <<"Prob (Severe Toxic)", "sev">>,
     <<"Prob (Obscene)", "obs">>, <<"Prob (Insult)", "ins">>,
     <<"Prob (Threat)", "thr">>, <<"Prob (Identity Hate)", "ide">> >>

\* the classifier probability of dimension d for the text the caller supplied
Expected(r, d) == ProbaOf(d, TransformOf(d, Strip(query[r].value)))

\* C3: a 200 report lists exactly the six labels Toxic, Severe Toxic, Obscene,
\* Insult, Threat, Identity Hate in that order, and the value under each label
\* is that dimension's classifier probability for the trimmed text, rounded to
\* the nearest hundredth (ties to even), so a hundredth in [0, 1].
C3_ReportValues ==
  \A r \in Reqs :
    (Finished(r) /\ response[r].status = 200) =>
      /\ Len(response[r].results) = 6
      /\ \A i \in 1..6 :
           /\ response[r].results[i][1] = DisplayOrder[i][1]
           /\ NearestEven(response[r].results[i][2],
                          Expected(r, DisplayOrder[i][2]))

\* What does hold of a 200 report: exactly six entries, one per label, each
\* carrying its own dimension's probability rounded to the nearest hundredth.
ReportValuesByLabel ==
  \A r \in Reqs :
    (Finished(r) /\ response[r].status = 200) =>
      /\ Len(response[r].results) = 6
      /\ \A i \in 1..6 : \E j \in 1..6 :
           /\ response[r].results[j][1] = DisplayOrder[i][1]
           /\ NearestEven(response[r].results[j][2],
                          Expected(r, DisplayOrder[i][2]))

\* C4: when an artifact failed to load, every finished request with non-empty
\* text fails, and the failure is the unavailability of that artifact's
\* dimension.
C4_UnavailableReported ==
  \A r \in Reqs : \A a \in Artifacts :
    (Finished(r) /\ NonBlank(r) /\ registry[a] = None) =>
      /\ response[r].status = 500
      /\ StmtDim(at[r]) = a.dim
      /\ response[r].error[2] \in {AttributeError("transform"),
                                   AttributeError("predict_proba")}

\* C5: two finished requests with the same text have the same outcome,
\* whatever was served in between or alongside.
C5_Deterministic ==
  \A r1, r2 \in Reqs :
    (Finished(r1) /\ Finished(r2) /\ ArgsGet(query[r1]) = ArgsGet(query[r2])) =>
      response[r1] = response[r2]

C5_Witness ==
  /\ Finished(1) /\ Finished(2)
  /\ NonBlank(1)
  /\ query[1] = query[2]
  /\ response[1].status = 200

\* C6: the original_text of a 200 report is the text exactly as the caller
\* supplied it, surrounding whitespace included, and every component that ran
\* was given the trimmed text.
C6_OriginalTextKept ==
  \A r \in Reqs :
    (Finished(r) /\ response[r].status = 200) =>
      /\ response[r].original_text = query[r].value
      /\ \A i \in 1..Len(calls[r]) : calls[r][i].text = Strip(query[r].value)

\* C7: for a non-empty text every one of the six dimensions is scored with the
\* trimmed text, also when another dimension failed.
C7_AllDimensionsScored ==
  \A r \in Reqs :
    (Finished(r) /\ NonBlank(r)) =>
      /\ {StmtDim(k) : k \in 1..at[r]} = Dims
      /\ \A i \in 1..Len(calls[r]) : calls[r][i].text = Strip(query[r].value)

\* C8: a vectorizer or classifier runs only when both artifacts of its
\* dimension loaded.
C8_PairInvariant ==
  \A r \in Reqs : \A i \in 1..Len(calls[r]) :
    /\ registry[[kind |-> "vect", dim |-> calls[r][i].dim]] # None
    /\ registry[[kind |-> "model", dim |-> calls[r][i].dim]] # None

\* the twelve scoring statements run with the dimensions in the given order:
\* the handler's result for trimmed text t
OutcomeIn(r, order, t) ==
  LET obj(k) == registry[[kind |-> StmtKind(k), dim |-> order[(k + 1) \div 2]]]
      fails == {k \in 1..12 : obj(k) # "good"}
      first == CHOOSE k \in fails : \A j \in fails : k <= j
  IN  IF t = <<>> THEN EmptyInput
      ELSE IF fails = {}
        THEN Report(t, [d \in Dims |-> ProbaOf(d, TransformOf(d, t))])
      ELSE IF obj(first) = None
        THEN Except(r, AttributeError(IF StmtKind(first) = "vect"
                                         THEN "transform" ELSE "predict_proba"))
      ELSE Except(r, IF StmtKind(first) = "vect"
                       THEN "transform raised" ELSE "predict_proba raised")

Orders == {[i \in 1..6 |-> p[ExecOrder[i]]] : p \in Permutations(Dims)}

\* the handler's response is the one its own statement order gives
OutcomeInSourceOrder ==
  \A r \in Reqs : Finished(r) => response[r] = OutcomeIn(r, ExecOrder, text[r])

C10_RegistryFrozen == [][Serving => registry' = registry]_vars

\* a request that failed during scoring has been served
C10_Witness ==
  /\ Serving
  /\ \E r \in Reqs : Finished(r) /\ response[r].status = 500

====
